---- MODULE Spec2Model ----
(***************************************************************************)
(* Model of tasmotizer.py: the flashing pipeline (Tasmotizer.start_process, *)
(* ProcessDialog, ESPWorker) running on a GUI thread with a Qt event queue  *)
(* and one worker thread, and the brace-counting frame accumulator          *)
(* (PinConfigDialog.read_init_config / read_json).                          *)
(***************************************************************************)
EXTENDS Integers, Sequences, FiniteSets, TLC

(***************************************************************************)
(* Bounds of the model.                                                    *)
(***************************************************************************)
\* how many times the user presses the Abort button of one ProcessDialog
MaxClicks == 2
\* how many bytes one serial session delivers to read_json in all
MaxFed == 5
\* how many main-window actions on the selected port are followed
MaxPortOps == 4
\* size of the largest image of a download, in bytes
MaxBytes == 3
\* progress notifications of one download
MaxNotes == 3
\* flashing runs started one after another
MaxRuns == 2
\* chunks in the body of the image a download delivers
DlChunks == 2

(***************************************************************************)
(* Values.                                                                 *)
(***************************************************************************)
\* a path is the sequence of its '/'-separated parts; <<>> is None or ''
NoPath == <<>>
LocalPath == <<"", "home", "tasmota.bin">>
UrlPath == <<"http:", "", "ota.tasmota.com", "tasmota.bin">>
Exceptions == {"FatalError", "SerialException"}
Ev(t) == [t |-> t, e |-> "None"]
ErrEv(e) == [t |-> "error", e |-> e]

\* `x in list`
In(x, list) == \E i \in DOMAIN list : list[i] = x

VARIABLES
  \* Tasmotizer.start_process / the controller
  phase,          \* "idle", "exec" (in process_dlg.exec_()), "reported", "closed", "crashed"
  shown,          \* the message box the controller shows for the run
  \* ProcessDialog
  file_path, backup, backup_size, erase, auto_reset,
  actions,        \* self._actions
  exception,      \* self.exception
  result,         \* QDialog result code
  loopExit,       \* exec_()'s event loop has been told to exit
  espExists,      \* self.esp / self.esp_thread have been created by run_esp
  saved,          \* the downloaded image has been written to the local file
  downloading,    \* a network reply is in flight
  bin_data,       \* self.bin_data: the chunks appendBinFile has appended
  fileData,       \* the content of the local image file saveBinFile wrote
  \* GUI thread
  mstack,         \* pending steps of the handlers the GUI thread is inside of
  queue,          \* events posted to the GUI thread
  clicks,         \* Abort presses so far
  \* ESPWorker and its thread
  wpc,            \* position of ESPWorker.run
  continueFlag,   \* esptool.sw continue flag (module-global)
  wcontinue,      \* ESPWorker._continue
  params,         \* ESPWorker._params
  raised,         \* the exception caught at line 70, or "None"
  threadExit,     \* esp_thread.exit() has been called
  \* history of the run
  driverCalls,    \* the esptool.main calls started, in order
  returns,        \* how many esptool.main calls have returned normally
  waitEntries,    \* how often ESPWorker.wait_for_user was entered
  continueCalls,  \* how often ESPWorker.continue_ok was called
  abortCalls,     \* how often ESPWorker.abort was called
  doneCalls,      \* the QDialog.done(r) calls, in order
  stageAtAbort,   \* what the worker was doing when ESPWorker.abort was first called
  callsAtAbort,   \* Len(driverCalls) at that moment
  userActed,      \* the user pressed Abort, Cancel or closed the window
  dlFailed,       \* saveBinFile has seen a reply with an error
  abortNoEsp,     \* ProcessDialog.abort has run while self.esp did not exist
  cancelled,      \* the user has answered Cancel in wait_for_user
  \* PinConfigDialog serial session
  pin,            \* "none", "session" (read_init_config has run), "crashed"
  brackets,       \* self.brackets: [open |-> n, close |-> m]
  hasData,        \* the attribute self.data exists
  data,           \* self.data, once it exists
  jsons,          \* self.jsons
  doneEmits,      \* how often components_done has been emitted
  writes,         \* the request lines written to the port, in order
  fed,            \* every byte read_json has been handed, in order
  chunks,         \* how many chunks have arrived
  lastExc,        \* the exception that left the last read_json call, or "None"
  slots,          \* the slots connected: port.readyRead -> read_json and
                  \* components_done -> read_gpios
  \* the serial connections to the selected port
  cmdKind,        \* what Tasmotizer.cmdDlg refers to: "none", "term", "pin"
  cmdVis,         \* that window: "none", "shown", "saved", "rejected", "closed"
  cmdOpen,        \* that dialog's QSerialPort is open
  mainPort,       \* Tasmotizer.port: "none", "open", "closed"
  modal,          \* the modal dialog the main window is in: "none", "ip",
                  \* "cfg", "cfgbox", "flash"
  espState,       \* the flash worker: "none", "idle", "conn" (esptool holds a
                  \* connection), "ended"
  espCalls,       \* driver calls of the current worker
  portOps,        \* main-window actions so far
  \* the firmware catalogs and the image mode of the main window
  release_data,   \* Tasmotizer.release_data, as the document it holds
  development_data,
  mode,           \* Tasmotizer.mode: 0 file, 1 release, 2 development
  combo,          \* the items of cbHackboxBin (their otaurl data)
  comboEnabled,   \* cbHackboxBin.isEnabled()
  lastDoc,        \* the document the last setBinMode call processed
  catReported,    \* that call showed the 'Cannot load bin data' box
  catExc,         \* the exception that left that call, or "None"
  cat,            \* "alive", or "crashed" once an exception ended the process
  \* the progress notifications of an image download
  prog,           \* "none", "running" (download_bin has run), "crashed"
  bytesTotal,     \* bytesTotal of the reply: -1 unknown, else the size
  bytesReceived,  \* bytesReceived of the last notification
  progress,       \* the values set on the download bar, in order
  progExc,        \* the exception that left updateBinProgress, or "None"
  \* the IP address dialog
  ipDlg,          \* "none", "open" (DeviceIP.__init__ has run)
  ipResp,         \* the bytes the device sends in answer to 'IPAddress1'
  ipPos,          \* how many of them have arrived
  ipData,         \* DeviceIP.data
  ipText,         \* DeviceIP.ip.text()
  ipChunks,       \* how many chunks DeviceIP.read has taken
  \* flashing runs one after another, each with its own worker
  sw,             \* esptool.sw continue flag (module-global)
  swBy,           \* the run whose worker last set it to True, or 0
  runs,           \* how many runs have been started
  rdlg,           \* start_process: "idle", "exec" (in process_dlg.exec_()),
                  \* "box" (showing the result message box)
  wk,             \* the ESPWorker of each run
  rproc           \* "alive", or "crashed" once the process has ended

flashVars == << phase, shown, file_path, backup, backup_size, erase, auto_reset,
                actions, exception, result, loopExit, espExists, saved,
                downloading, bin_data, fileData, mstack, queue, clicks, wpc,
                continueFlag,
                wcontinue, params, raised, threadExit, driverCalls,
                returns, waitEntries, continueCalls, abortCalls, doneCalls,
                stageAtAbort, callsAtAbort, userActed, dlFailed, abortNoEsp,
                cancelled >>
frameVars == << pin, brackets, hasData, data, jsons, doneEmits, writes, fed, chunks,
               lastExc, slots >>
portVars == << cmdKind, cmdVis, cmdOpen, mainPort, modal, espState, espCalls,
              portOps >>
catVars == << release_data, development_data, mode, combo, comboEnabled,
             lastDoc, catReported, catExc, cat >>
progVars == << prog, bytesTotal, bytesReceived, progress, progExc >>
ipVars == << ipDlg, ipResp, ipPos, ipData, ipText, ipChunks >>
runVars == << sw, swBy, runs, rdlg, wk, rproc >>
vars == << flashVars, frameVars, portVars, catVars, progVars, ipVars, runVars >>
notFlashVars == << frameVars, portVars, catVars, progVars, ipVars, runVars >>
notFrameVars == << flashVars, portVars, catVars, progVars, ipVars, runVars >>
notPortVars == << flashVars, frameVars, catVars, progVars, ipVars, runVars >>
notCatVars == << flashVars, frameVars, portVars, progVars, ipVars, runVars >>
notProgVars == << flashVars, frameVars, portVars, catVars, ipVars, runVars >>
notIpVars == << flashVars, frameVars, portVars, catVars, progVars, runVars >>
notRunVars == << flashVars, frameVars, portVars, catVars, progVars, ipVars >>

(***************************************************************************)
(* Pure helpers.                                                           *)
(***************************************************************************)
\* str.startswith('http')
StartsWithHttp(p) == p # NoPath /\ p[1] = "http:"

\* p.split('/')[-1]
LastPart(p) == << p[Len(p)] >>

RECURSIVE Pow2(_)
\* 2 ** n
Pow2(n) == IF n = 0 THEN 1 ELSE 2 * Pow2(n - 1)

RECURSIVE DecDigits(_)
\* the decimal digits '{}'.format(k) writes for k >= 0
DecDigits(k) == IF k < 10 THEN << k >> ELSE DecDigits(k \div 10) \o << k % 10 >>

\* no backup_size key in the params
NoSize == [prefix |-> "", digits |-> << >>]

\* f'0x{2 ** self.backup_size}00000': the text, as its prefix and its digits
BackupSizeArg(n) == [prefix |-> "0x", digits |-> DecDigits(Pow2(n)) \o << 0, 0, 0, 0, 0 >>]

RECURSIVE DigitsValue(_, _)
\* the number a digit sequence denotes in the given base
DigitsValue(ds, base) ==
  IF ds = << >> THEN 0
  ELSE DigitsValue(SubSeq(ds, 1, Len(ds) - 1), base) * base + ds[Len(ds)]

\* the length the flash driver reads from a size argument: int(text, 0)
ArgValue(a) == DigitsValue(a.digits, IF a.prefix = "0x" THEN 16 ELSE 10)

\* a stage list that puts the write stage before the erase flag
BuildActions_WriteBeforeErase(fp, bk, er) ==
  (IF fp # NoPath /\ StartsWithHttp(fp) THEN << "download" >> ELSE << >>)
  \o (IF bk THEN << "backup" >> ELSE << >>)
  \o (IF fp # NoPath THEN << "write" >> ELSE << >>)
  \o (IF er THEN << "erase" >> ELSE << >>)

\* ProcessDialog.__init__: the stage list built from the keyword arguments
BuildActions(fp, bk, er) ==
  (IF fp # NoPath /\ StartsWithHttp(fp) THEN << "download" >> ELSE << >>)
  \o (IF bk THEN << "backup" >> ELSE << >>)
  \o (IF er THEN << "erase" >> ELSE << >>)
  \o (IF fp # NoPath THEN << "write" >> ELSE << >>)

\* ProcessDialog.run_esp: the params handed to ESPWorker
RunEspParams(fp, ar, er, bk, n) ==
  [file_path |-> fp, auto_reset |-> ar, erase |-> er,
   backup_size |-> IF bk THEN BackupSizeArg(n) ELSE NoSize]

\* ESPWorker.run: the read_flash command
CommandBackup(prm) ==
  [op |-> "read_flash", size |-> prm.backup_size, file |-> << "backup.bin" >>,
   erase_all |-> FALSE]

\* a write_flash command that never carries --erase-all
CommandWrite_NeverErases(prm, acts) ==
  [op |-> "write_flash", size |-> NoSize, file |-> prm.file_path,
   erase_all |-> FALSE]

\* ESPWorker.run: the write_flash command
CommandWrite(prm, acts) ==
  [op |-> "write_flash", size |-> NoSize, file |-> prm.file_path,
   erase_all |-> In("erase", acts)]

\* Tasmotizer.start_process: the message box shown for a dialog result
Outcome(res, exc) ==
  IF res = "Accepted" THEN "success"
  ELSE IF exc # "None" THEN exc ELSE "aborted"

(***************************************************************************)
(* Initial state: the main window is idle, no serial session is open.      *)
(***************************************************************************)
FlashInit ==
  /\ phase = "idle" /\ shown = "none"
  /\ file_path = NoPath /\ backup = FALSE /\ backup_size = -1
  /\ erase = FALSE /\ auto_reset = FALSE
  /\ actions = << >> /\ exception = "None" /\ result = "Rejected"
  /\ loopExit = FALSE /\ espExists = FALSE /\ saved = FALSE
  /\ downloading = FALSE /\ bin_data = << >> /\ fileData = << >>
  /\ mstack = << >> /\ queue = << >> /\ clicks = 0
  /\ wpc = "nothread" /\ continueFlag \in BOOLEAN /\ wcontinue = FALSE
  /\ params = RunEspParams(NoPath, FALSE, FALSE, FALSE, 0)
  /\ raised = "None" /\ threadExit = FALSE
  /\ driverCalls = << >> /\ returns = 0 /\ waitEntries = 0 /\ continueCalls = 0
  /\ abortCalls = 0 /\ doneCalls = << >>
  /\ stageAtAbort = "none" /\ callsAtAbort = -1
  /\ userActed = FALSE /\ dlFailed = FALSE /\ abortNoEsp = FALSE
  /\ cancelled = FALSE

cfgV == << file_path, backup, backup_size, erase, auto_reset, actions >>
dlgV == << exception, result, loopExit, espExists, saved, downloading,
          bin_data, fileData >>
guiV == << mstack, queue, clicks >>
wrkV == << wpc, continueFlag, wcontinue, params, raised, threadExit >>
histV == << driverCalls, returns, waitEntries, continueCalls, abortCalls, doneCalls,
            stageAtAbort, callsAtAbort, userActed, dlFailed, abortNoEsp,
           cancelled >>

Alive == phase # "crashed"

(***************************************************************************)
(* Tasmotizer.start_process up to exec_(): resolve the image path, build   *)
(* the ProcessDialog (its stage list), and start the download or the       *)
(* flash worker.                                                           *)
(***************************************************************************)
StartProcess ==
  /\ phase = "idle"
  /\ \E md \in 0 .. 2, text \in {NoPath, LocalPath, UrlPath},
        current \in {NoPath, UrlPath}, bk \in BOOLEAN, n \in 0 .. 4,
        er \in BOOLEAN, ar \in BOOLEAN :
       IF md = 0 /\ Len(text) = 0
       THEN \* raise NoBinFile: no dialog is built
            /\ phase' = "reported" /\ shown' = "NoBinFile"
            /\ UNCHANGED << cfgV, dlgV, guiV, wrkV, histV >>
       ELSE LET fp == IF md = 0 THEN text ELSE current
                acts == BuildActions(fp, bk, er)
            IN /\ phase' = "exec" /\ shown' = shown
               /\ file_path' = fp /\ backup' = bk
               /\ backup_size' = IF bk THEN n ELSE -1
               /\ erase' = er /\ auto_reset' = ar
               /\ IF In("download", acts)
                  THEN \* download_bin(); self._actions = self._actions[1:]
                       /\ actions' = Tail(acts)
                       /\ downloading' = TRUE
                       /\ UNCHANGED << espExists, params, wpc >>
                  ELSE \* run_esp()
                       /\ actions' = acts
                       /\ params' = RunEspParams(fp, ar, er, bk, n)
                       /\ espExists' = TRUE /\ wpc' = "start"
                       /\ UNCHANGED downloading
               /\ UNCHANGED << exception, result, loopExit, saved, bin_data,
                               fileData, guiV,
                               continueFlag, wcontinue, raised, threadExit,
                               histV >>
  /\ UNCHANGED notFlashVars

\* the body of the image on the server, as its chunks in order
DlBody == [i \in 1 .. DlChunks |-> i]

\* the network reply finishes: without an error once the whole body has
\* been delivered, with an error at any moment
DownloadFinished ==
  /\ Alive /\ downloading
  /\ \E err \in {"NoError", "ReplyError"} :
       /\ err = "NoError" => bin_data = DlBody
       /\ queue' = Append(queue, [t |-> "finished", e |-> err])
  /\ downloading' = FALSE
  /\ UNCHANGED << phase, shown, cfgV, exception, result, loopExit, espExists,
                  saved, bin_data, fileData, mstack, clicks, wrkV, histV >>
  /\ UNCHANGED notFlashVars

(***************************************************************************)
(* The GUI thread.  mstack holds the steps still to run of the handlers    *)
(* the thread is inside of; a handler is entered by an event loop: exec_() *)
(* of the dialog (the empty stack), QApplication.processEvents() ("pe"),   *)
(* the modal message box of wait_for_user ("msgbox"), or the controller's  *)
(* result message box once exec_() has returned.                           *)
(***************************************************************************)
InLoop ==
  IF mstack = << >>
  THEN (phase = "exec" /\ ~loopExit) \/ phase = "reported"
  ELSE Head(mstack) \in {"pe", "msgbox"}

CanDispatch(t) == Alive /\ InLoop /\ queue # << >> /\ Head(queue).t = t

\* ProcessDialog.abort, as the steps it pushes
AbortSteps == << "pe", "ab_flag", "ab_finish" >>

\* ESPWorker.abort
EspAbort ==
  /\ continueFlag' = FALSE
  /\ abortCalls' = abortCalls + 1
  /\ stageAtAbort' = IF stageAtAbort = "none" THEN wpc ELSE stageAtAbort
  /\ callsAtAbort' = IF stageAtAbort = "none" THEN Len(driverCalls) ELSE callsAtAbort

\* ESPWorker.continue_ok
ContinueOk ==
  /\ wcontinue' = TRUE
  /\ continueCalls' = continueCalls + 1

\* QDialog.done(r)
DialogDone(r) ==
  /\ result' = r
  /\ loopExit' = TRUE
  /\ doneCalls' = Append(doneCalls, r)

\* the reply's readyRead: appendBinFile appends the chunk that has arrived
AppendBinFile ==
  /\ Alive /\ downloading /\ InLoop
  /\ Len(bin_data) < DlChunks
  /\ bin_data' = Append(bin_data, DlBody[Len(bin_data) + 1])
  /\ UNCHANGED << phase, shown, cfgV, exception, result, loopExit, espExists,
                  saved, fileData, downloading, guiV, wrkV, histV >>
  /\ UNCHANGED notFlashVars

\* a saveBinFile that writes the file but hands the worker the URL
SaveBinFile_KeepsUrl ==
  /\ CanDispatch("finished") /\ Head(queue).e = "NoError"
  /\ queue' = Tail(queue)
  /\ file_path' = file_path
  /\ saved' = TRUE /\ fileData' = bin_data /\ bin_data' = bin_data
  /\ params' = RunEspParams(file_path, auto_reset, erase, backup, backup_size)
  /\ espExists' = TRUE /\ wpc' = "start"
  /\ UNCHANGED << phase, shown, backup, backup_size, erase, auto_reset, actions,
                  exception, result, loopExit, downloading, mstack, clicks,
                  continueFlag, wcontinue, raised, threadExit, histV >>
  /\ UNCHANGED notFlashVars

\* ProcessDialog.saveBinFile, reply without error: save the image, run_esp
SaveBinFile ==
  /\ CanDispatch("finished") /\ Head(queue).e = "NoError"
  /\ queue' = Tail(queue)
  /\ file_path' = LastPart(file_path)
  /\ saved' = TRUE /\ fileData' = bin_data /\ bin_data' = bin_data
  /\ params' = RunEspParams(LastPart(file_path), auto_reset, erase, backup,
                            backup_size)
  /\ espExists' = TRUE /\ wpc' = "start"
  /\ UNCHANGED << phase, shown, backup, backup_size, erase, auto_reset, actions,
                  exception, result, loopExit, downloading, mstack, clicks,
                  continueFlag, wcontinue, raised, threadExit, histV >>
  /\ UNCHANGED notFlashVars

\* ProcessDialog.saveBinFile, reply with an error: NetworkError is raised
\* inside the slot; PyQt either ends the process or drops the exception
SaveBinFileError ==
  /\ CanDispatch("finished") /\ Head(queue).e = "ReplyError"
  /\ queue' = Tail(queue)
  /\ dlFailed' = TRUE
  /\ phase' \in {phase, "crashed"}
  /\ UNCHANGED << shown, cfgV, dlgV, mstack, clicks, wrkV, driverCalls,
                  returns, waitEntries, continueCalls, abortCalls, doneCalls,
                  stageAtAbort, callsAtAbort, userActed, abortNoEsp,
                  cancelled >>
  /\ UNCHANGED notFlashVars

\* ProcessDialog.wait_for_user: the message box opens
WaitForUserBox ==
  /\ CanDispatch("waiting")
  /\ queue' = Tail(queue)
  /\ mstack' = << "msgbox" >> \o mstack
  /\ UNCHANGED << phase, shown, cfgV, dlgV, clicks, wrkV, histV >>
  /\ UNCHANGED notFlashVars

\* ProcessDialog.accept: stop_thread(); done(Accepted)
Accept ==
  /\ CanDispatch("done")
  /\ queue' = Tail(queue)
  /\ threadExit' = TRUE
  /\ DialogDone("Accepted")
  /\ UNCHANGED << phase, shown, cfgV, exception, espExists, saved, bin_data,
                  fileData, downloading,
                  mstack, clicks, wpc, continueFlag, wcontinue, params, raised,
                  driverCalls, returns, waitEntries, continueCalls, abortCalls,
                  stageAtAbort, callsAtAbort, userActed, dlFailed, abortNoEsp,
                  cancelled >>
  /\ UNCHANGED notFlashVars

\* an error slot that aborts without recording the exception
Error_DropsException ==
  /\ CanDispatch("error")
  /\ queue' = Tail(queue)
  /\ mstack' = AbortSteps \o mstack
  /\ UNCHANGED << phase, shown, cfgV, dlgV, clicks, wrkV, histV >>
  /\ UNCHANGED notFlashVars

\* ProcessDialog.error: record the exception, then abort()
Error ==
  /\ CanDispatch("error")
  /\ queue' = Tail(queue)
  /\ exception' = Head(queue).e
  /\ mstack' = AbortSteps \o mstack
  /\ UNCHANGED << phase, shown, cfgV, result, loopExit, espExists, saved, bin_data,
                  fileData,
                  downloading, clicks, wrkV, histV >>
  /\ UNCHANGED notFlashVars

\* the Abort button's rejected signal: ProcessDialog.abort is entered
AbortClicked ==
  /\ CanDispatch("click")
  /\ queue' = Tail(queue)
  /\ mstack' = AbortSteps \o mstack
  /\ UNCHANGED << phase, shown, cfgV, dlgV, clicks, wrkV, histV >>
  /\ UNCHANGED notFlashVars

\* QApplication.processEvents() returns once nothing is pending
ProcessEventsReturn ==
  /\ Alive /\ mstack # << >> /\ Head(mstack) = "pe" /\ queue = << >>
  /\ mstack' = Tail(mstack)
  /\ UNCHANGED << phase, shown, cfgV, dlgV, queue, clicks, wrkV, histV >>
  /\ UNCHANGED notFlashVars

\* ProcessDialog.abort: self.esp.abort()
AbortEspAbort ==
  /\ Alive /\ mstack # << >> /\ Head(mstack) = "ab_flag" /\ espExists
  /\ EspAbort
  /\ mstack' = Tail(mstack)
  /\ UNCHANGED << phase, shown, cfgV, dlgV, queue, clicks, wpc, wcontinue,
                  params, raised, threadExit, driverCalls, returns, waitEntries,
                  continueCalls, doneCalls, userActed, dlFailed, abortNoEsp,
                  cancelled >>
  /\ UNCHANGED notFlashVars

\* ProcessDialog.abort before run_esp: self.esp does not exist, the
\* AttributeError leaves the slot; PyQt ends the process or drops it
AbortNoEsp ==
  /\ Alive /\ mstack # << >> /\ Head(mstack) = "ab_flag" /\ ~espExists
  /\ mstack' = Tail(Tail(mstack))
  /\ phase' \in {phase, "crashed"}
  /\ abortNoEsp' = TRUE
  /\ UNCHANGED << shown, cfgV, dlgV, queue, clicks, wrkV, driverCalls,
                  returns, waitEntries, continueCalls, abortCalls, doneCalls,
                  stageAtAbort, callsAtAbort, userActed, dlFailed,
                  cancelled >>
  /\ UNCHANGED notFlashVars

\* ProcessDialog.abort: stop_thread(); reject()
AbortReject ==
  /\ Alive /\ mstack # << >> /\ Head(mstack) = "ab_finish"
  /\ threadExit' = TRUE
  /\ DialogDone("Rejected")
  /\ mstack' = Tail(mstack)
  /\ UNCHANGED << phase, shown, cfgV, exception, espExists, saved, bin_data,
                  fileData, downloading,
                  queue, clicks, wpc, continueFlag, wcontinue, params, raised,
                  driverCalls, returns, waitEntries, continueCalls, abortCalls,
                  stageAtAbort, callsAtAbort, userActed, dlFailed, abortNoEsp,
                  cancelled >>
  /\ UNCHANGED notFlashVars

\* wait_for_user, the user answers Ok: self.esp.continue_ok()
UserOk ==
  /\ Alive /\ mstack # << >> /\ Head(mstack) = "msgbox"
  /\ ContinueOk
  /\ mstack' = Tail(mstack)
  /\ UNCHANGED << phase, shown, cfgV, dlgV, queue, clicks, wpc, continueFlag,
                  params, raised, threadExit, driverCalls, returns, waitEntries,
                  abortCalls, doneCalls, stageAtAbort, callsAtAbort, userActed,
                  dlFailed, abortNoEsp,
                  cancelled >>
  /\ UNCHANGED notFlashVars

\* wait_for_user, the user answers Cancel: esp.abort(); esp.continue_ok();
\* self.abort() are still to run
UserCancel ==
  /\ Alive /\ mstack # << >> /\ Head(mstack) = "msgbox"
  /\ mstack' = << "wc_flag", "wc_cont" >> \o AbortSteps \o Tail(mstack)
  /\ userActed' = TRUE /\ cancelled' = TRUE
  /\ UNCHANGED << phase, shown, cfgV, dlgV, queue, clicks, wrkV, driverCalls,
                  returns, waitEntries, continueCalls, abortCalls, doneCalls,
                  stageAtAbort, callsAtAbort, dlFailed, abortNoEsp >>
  /\ UNCHANGED notFlashVars

\* a Cancel branch that releases the latch without clearing the flag first
CancelEspAbort_LeavesFlag ==
  /\ Alive /\ mstack # << >> /\ Head(mstack) = "wc_flag"
  /\ mstack' = Tail(mstack)
  /\ UNCHANGED << phase, shown, cfgV, dlgV, queue, clicks, wrkV, histV >>
  /\ UNCHANGED notFlashVars

\* wait_for_user after Cancel: self.esp.abort()
CancelEspAbort ==
  /\ Alive /\ mstack # << >> /\ Head(mstack) = "wc_flag"
  /\ EspAbort
  /\ mstack' = Tail(mstack)
  /\ UNCHANGED << phase, shown, cfgV, dlgV, queue, clicks, wpc, wcontinue,
                  params, raised, threadExit, driverCalls, returns, waitEntries,
                  continueCalls, doneCalls, userActed, dlFailed, abortNoEsp,
                  cancelled >>
  /\ UNCHANGED notFlashVars

\* wait_for_user after Cancel: self.esp.continue_ok()
CancelContinueOk ==
  /\ Alive /\ mstack # << >> /\ Head(mstack) = "wc_cont"
  /\ ContinueOk
  /\ mstack' = Tail(mstack)
  /\ UNCHANGED << phase, shown, cfgV, dlgV, queue, clicks, wpc, continueFlag,
                  params, raised, threadExit, driverCalls, returns, waitEntries,
                  abortCalls, doneCalls, stageAtAbort, callsAtAbort, userActed,
                  dlFailed, abortNoEsp,
                  cancelled >>
  /\ UNCHANGED notFlashVars

\* the user presses the dialog's Abort button (not while the modal message
\* box is open, and not once the dialog is hidden)
UserClickAbort ==
  /\ phase = "exec" /\ ~loopExit /\ ~In("msgbox", mstack)
  /\ clicks < MaxClicks
  /\ clicks' = clicks + 1
  /\ queue' = Append(queue, Ev("click"))
  /\ userActed' = TRUE
  /\ UNCHANGED << phase, shown, cfgV, dlgV, mstack, wrkV, driverCalls,
                  returns, waitEntries, continueCalls, abortCalls, doneCalls,
                  stageAtAbort, callsAtAbort, dlFailed, abortNoEsp,
                  cancelled >>
  /\ UNCHANGED notFlashVars

\* the user closes the dialog's window: ProcessDialog.closeEvent runs
\* stop_thread() and the window hides, which ends exec_()
UserClose ==
  /\ phase = "exec" /\ ~loopExit /\ mstack = << >>
  /\ userActed' = TRUE
  /\ loopExit' = TRUE
  /\ IF espExists
     THEN threadExit' = TRUE /\ phase' = phase
     ELSE \* self.esp_thread does not exist: AttributeError in closeEvent
          threadExit' = threadExit /\ phase' \in {phase, "crashed"}
  /\ UNCHANGED << shown, cfgV, exception, result, espExists, saved, bin_data,
                  fileData,
                  downloading, guiV, wpc, continueFlag, wcontinue, params,
                  raised, driverCalls, returns, waitEntries, continueCalls, abortCalls,
                  doneCalls, stageAtAbort, callsAtAbort, dlFailed, abortNoEsp,
                  cancelled >>
  /\ UNCHANGED notFlashVars

\* process_dlg.exec_() returns: the controller reads the result and the
\* exception and shows its message box
ExecReturn ==
  /\ phase = "exec" /\ mstack = << >> /\ loopExit
  /\ phase' = "reported"
  /\ shown' = Outcome(result, exception)
  /\ UNCHANGED << cfgV, dlgV, guiV, wrkV, histV >>
  /\ UNCHANGED notFlashVars

\* the controller's message box is closed; start_process returns and the
\* dialog is released
ResultBoxClose ==
  /\ phase = "reported" /\ mstack = << >>
  /\ phase' = "closed"
  /\ UNCHANGED << shown, cfgV, dlgV, guiV, wrkV, histV >>
  /\ UNCHANGED notFlashVars

(***************************************************************************)
(* ESPWorker.run on the worker thread.                                     *)
(***************************************************************************)
\* line 50: esptool.sw.setContinueFlag(True)
WorkerRunStart ==
  /\ Alive /\ wpc = "start"
  /\ continueFlag' = TRUE
  /\ wpc' = IF In("backup", actions) THEN "backup_call" ELSE "check"
  /\ UNCHANGED << phase, shown, cfgV, dlgV, guiV, wcontinue, params, raised,
                  threadExit, histV >>
  /\ UNCHANGED notFlashVars

\* lines 54-56: esptool.main(read_flash ...) is entered
WorkerBackupCall ==
  /\ Alive /\ wpc = "backup_call"
  /\ driverCalls' = Append(driverCalls, CommandBackup(params))
  /\ wpc' = "in_backup"
  /\ UNCHANGED << phase, shown, cfgV, dlgV, guiV, continueFlag, wcontinue,
                  params, raised, threadExit, returns, waitEntries, continueCalls,
                  abortCalls, doneCalls, stageAtAbort, callsAtAbort, userActed,
                  dlFailed, abortNoEsp,
                  cancelled >>
  /\ UNCHANGED notFlashVars

\* esptool.main returns
DriverReturn ==
  /\ Alive /\ wpc \in {"in_backup", "in_write"}
  /\ wpc' = IF wpc = "in_write" THEN "emit_done"
            ELSE IF params.auto_reset THEN "check" ELSE "wait_enter"
  /\ returns' = returns + 1
  /\ UNCHANGED << phase, shown, cfgV, dlgV, guiV, continueFlag, wcontinue,
                  params, raised, threadExit, driverCalls, waitEntries,
                  continueCalls, abortCalls, doneCalls, stageAtAbort,
                  callsAtAbort, userActed, dlFailed, abortNoEsp,
                  cancelled >>
  /\ UNCHANGED notFlashVars

\* esptool.main raises esptool.FatalError or serial.SerialException
DriverRaise ==
  /\ Alive /\ wpc \in {"in_backup", "in_write"}
  /\ \E e \in Exceptions : raised' = e
  /\ wpc' = "emit_error"
  /\ UNCHANGED << phase, shown, cfgV, dlgV, guiV, continueFlag, wcontinue,
                  params, threadExit, histV >>
  /\ UNCHANGED notFlashVars

\* ESPWorker.wait_for_user: clear the latch, emit waiting
WorkerWaitEnter ==
  /\ Alive /\ wpc = "wait_enter"
  /\ wcontinue' = FALSE
  /\ queue' = Append(queue, Ev("waiting"))
  /\ waitEntries' = waitEntries + 1
  /\ wpc' = "waiting"
  /\ UNCHANGED << phase, shown, cfgV, dlgV, mstack, clicks, continueFlag,
                  params, raised, threadExit, driverCalls, returns, continueCalls,
                  abortCalls, doneCalls, stageAtAbort, callsAtAbort, userActed,
                  dlFailed, abortNoEsp,
                  cancelled >>
  /\ UNCHANGED notFlashVars

\* a wait loop that does not look at the latch
WorkerWaitLeave_NoLatch ==
  /\ Alive /\ wpc = "waiting"
  /\ wpc' = "check"
  /\ UNCHANGED << phase, shown, cfgV, dlgV, guiV, continueFlag, wcontinue,
                  params, raised, threadExit, histV >>
  /\ UNCHANGED notFlashVars

\* ESPWorker.wait_for_user: the loop ends once the latch is set
WorkerWaitLeave ==
  /\ Alive /\ wpc = "waiting" /\ wcontinue
  /\ wpc' = "check"
  /\ UNCHANGED << phase, shown, cfgV, dlgV, guiV, continueFlag, wcontinue,
                  params, raised, threadExit, histV >>
  /\ UNCHANGED notFlashVars

\* a worker that starts write_flash without waiting for read_flash to return
WorkerWriteCall_DuringBackup ==
  /\ Alive /\ wpc \in {"check", "in_backup"}
  /\ continueFlag /\ In("write", actions)
  /\ driverCalls' = Append(driverCalls, CommandWrite(params, actions))
  /\ wpc' = "in_write"
  /\ UNCHANGED << phase, shown, cfgV, dlgV, guiV, continueFlag, wcontinue,
                  params, raised, threadExit, returns, waitEntries, continueCalls,
                  abortCalls, doneCalls, stageAtAbort, callsAtAbort, userActed,
                  dlFailed, abortNoEsp,
                  cancelled >>
  /\ UNCHANGED notFlashVars

\* line 62 true: esptool.main(write_flash ...) is entered
WorkerWriteCall ==
  /\ Alive /\ wpc = "check"
  /\ continueFlag /\ In("write", actions)
  /\ driverCalls' = Append(driverCalls, CommandWrite(params, actions))
  /\ wpc' = "in_write"
  /\ UNCHANGED << phase, shown, cfgV, dlgV, guiV, continueFlag, wcontinue,
                  params, raised, threadExit, returns, waitEntries, continueCalls,
                  abortCalls, doneCalls, stageAtAbort, callsAtAbort, userActed,
                  dlFailed, abortNoEsp,
                  cancelled >>
  /\ UNCHANGED notFlashVars

\* line 62 false: the write stage is skipped
WorkerSkipWrite ==
  /\ Alive /\ wpc = "check"
  /\ ~(continueFlag /\ In("write", actions))
  /\ wpc' = "emit_done"
  /\ UNCHANGED << phase, shown, cfgV, dlgV, guiV, continueFlag, wcontinue,
                  params, raised, threadExit, histV >>
  /\ UNCHANGED notFlashVars

\* line 71: self.error.emit(e)
WorkerEmitError ==
  /\ Alive /\ wpc = "emit_error"
  /\ queue' = Append(queue, ErrEv(raised))
  /\ wpc' = "emit_done"
  /\ UNCHANGED << phase, shown, cfgV, dlgV, mstack, clicks, continueFlag,
                  wcontinue, params, raised, threadExit, histV >>
  /\ UNCHANGED notFlashVars

\* a worker that ends without emitting done
WorkerEmitDone_NoSignal ==
  /\ Alive /\ wpc = "emit_done"
  /\ wpc' = "finished"
  /\ UNCHANGED << phase, shown, cfgV, dlgV, guiV, continueFlag,
                  wcontinue, params, raised, threadExit, histV >>
  /\ UNCHANGED notFlashVars

\* line 72: self.done.emit()
WorkerEmitDone ==
  /\ Alive /\ wpc = "emit_done"
  /\ queue' = Append(queue, Ev("done"))
  /\ wpc' = "finished"
  /\ UNCHANGED << phase, shown, cfgV, dlgV, mstack, clicks, continueFlag,
                  wcontinue, params, raised, threadExit, histV >>
  /\ UNCHANGED notFlashVars

FlashNext ==
  \/ StartProcess \/ AppendBinFile \/ DownloadFinished
  \/ SaveBinFile \/ SaveBinFileError \/ WaitForUserBox \/ Accept \/ Error
  \/ AbortClicked \/ ProcessEventsReturn \/ AbortEspAbort \/ AbortNoEsp
  \/ AbortReject \/ UserOk \/ UserCancel \/ CancelEspAbort \/ CancelContinueOk
  \/ UserClickAbort \/ UserClose \/ ExecReturn \/ ResultBoxClose
  \/ WorkerRunStart \/ WorkerBackupCall \/ DriverReturn \/ DriverRaise
  \/ WorkerWaitEnter \/ WorkerWaitLeave \/ WorkerWriteCall \/ WorkerSkipWrite
  \/ WorkerEmitError \/ WorkerEmitDone

(***************************************************************************)
(* PinConfigDialog: the serial session of read_init_config and the frame   *)
(* accumulator read_json, connected to the port's readyRead.               *)
(***************************************************************************)
Bytes == {"{", "}", "x", "\n"}

\* the chunks port.readAll() can return when at most n bytes are left
ChunksUpTo(n) == UNION {[1 .. k -> Bytes] : k \in 1 .. n}

\* len(re.findall(b, chunk)) for a one-byte pattern
Count(b, chunk) == Cardinality({i \in DOMAIN chunk : chunk[i] = b})

NotLineBreak(b) == b \notin {"\r", "\n"}

\* str(data, 'utf-8').replace('\r', '').replace('\n', '')
ToParse(bs) == SelectSeq(bs, NotLineBreak)

\* re.compile(r"\{.*\}").findall(text): the span from the first '{' to the
\* last '}' behind it, if there is one
JsonMatch(text) ==
  LET opens == {i \in DOMAIN text : text[i] = "{"}
      first == CHOOSE i \in opens : \A j \in opens : i <= j
      closes == {i \in DOMAIN text : text[i] = "}" /\ i > first}
      last == CHOOSE i \in closes : \A j \in closes : j <= i
  IN IF opens = {} THEN << >>
     ELSE IF closes = {} THEN << >>
     ELSE << SubSeq(text, first, last) >>

RECURSIVE Depth(_, _)
\* the nesting depth after the first n bytes of a text
Depth(text, n) ==
  IF n = 0 THEN 0
  ELSE Depth(text, n - 1)
       + (IF text[n] = "{" THEN 1 ELSE IF text[n] = "}" THEN -1 ELSE 0)

\* json.loads(text) succeeds: one object, closed by the last byte and not
\* before (the bytes between braces stand for well-formed members)
ParseOk(text) ==
  /\ Len(text) >= 2 /\ text[1] = "{"
  /\ Depth(text, Len(text)) = 0
  /\ \A n \in 1 .. Len(text) - 1 : Depth(text, n) > 0

\* a read_init_config that also sets self.data = b''
AccInit_WithData ==
  [brackets |-> [open |-> 0, close |-> -1], hasData |-> TRUE, data |-> << >>,
   jsons |-> << >>, doneEmits |-> 0, writes |-> << "GPIOs" >>, exc |-> "None"]

\* PinConfigDialog.read_init_config: the state it leaves (self.data is not
\* assigned there, nor in __init__)
AccInit ==
  [brackets |-> [open |-> 0, close |-> -1], hasData |-> FALSE, data |-> << >>,
   jsons |-> << >>, doneEmits |-> 0, writes |-> << "GPIOs" >>, exc |-> "None"]

\* PinConfigDialog.read_gpios, run by each components_done emission:
\* self.components is None, so the slot stays connected; write 'GPIO\n'
ReadGpios(w) == Append(w, "GPIO")

\* a read_json that takes a missing self.data for an empty buffer
ReadJsonStep_MissingIsEmpty(acc, chunk) ==
  LET open == acc.brackets.open + Count("{", chunk)
      close == (IF open > 0 THEN 0 ELSE acc.brackets.close) + Count("}", chunk)
      br == [open |-> open, close |-> close]
      buf == acc.data \o chunk
      ret == JsonMatch(ToParse(buf))
  IN IF open - close # 0
     THEN [acc EXCEPT !.brackets = br, !.hasData = TRUE, !.data = buf,
                      !.exc = "None"]
     ELSE IF Len(ret) > 0 /\ ~ParseOk(ret[1])
     THEN [acc EXCEPT !.brackets = br, !.hasData = TRUE, !.data = buf,
                      !.exc = "JSONDecodeError"]
     ELSE [acc EXCEPT !.brackets = br, !.hasData = TRUE, !.data = << >>,
                      !.jsons = IF Len(ret) > 0 THEN Append(@, ret[1]) ELSE @,
                      !.doneEmits = @ + 1,
                      !.writes = ReadGpios(@),
                      !.exc = "None"]

\* PinConfigDialog.read_json on one chunk: the state it leaves and the
\* exception that left the slot, if any
ReadJsonStep(acc, chunk) ==
  LET open == acc.brackets.open + Count("{", chunk)
      close == (IF open > 0 THEN 0 ELSE acc.brackets.close) + Count("}", chunk)
      br == [open |-> open, close |-> close]
      buf == acc.data \o chunk
      ret == JsonMatch(ToParse(buf))
  IN IF ~acc.hasData
     THEN \* line 345: self.data does not exist
          [acc EXCEPT !.brackets = br, !.exc = "AttributeError"]
     ELSE IF open - close # 0
     THEN [acc EXCEPT !.brackets = br, !.data = buf, !.exc = "None"]
     ELSE IF Len(ret) > 0 /\ ~ParseOk(ret[1])
     THEN \* line 351: json.loads raises
          [acc EXCEPT !.brackets = br, !.data = buf, !.exc = "JSONDecodeError"]
     ELSE [acc EXCEPT !.brackets = br, !.data = << >>,
                      !.jsons = IF Len(ret) > 0 THEN Append(@, ret[1]) ELSE @,
                      !.doneEmits = @ + 1,
                      !.writes = ReadGpios(@),
                      !.exc = "None"]

\* the accumulator's fields as one record
Acc ==
  [brackets |-> brackets, hasData |-> hasData, data |-> data, jsons |-> jsons,
   doneEmits |-> doneEmits, writes |-> writes, exc |-> "None"]

\* read_init_config is called on an open dialog
ReadInitConfig ==
  /\ pin = "none"
  /\ pin' = "session"
  /\ brackets' = AccInit.brackets /\ hasData' = AccInit.hasData
  /\ data' = AccInit.data /\ jsons' = AccInit.jsons
  /\ doneEmits' = AccInit.doneEmits /\ writes' = AccInit.writes
  /\ slots' = [read_json |-> TRUE, read_gpios |-> TRUE]
  /\ UNCHANGED << fed, chunks, lastExc >>
  /\ UNCHANGED notFrameVars

\* readyRead: read_json runs on the chunk port.readAll() returns; an
\* exception leaving the slot ends the process or is dropped by PyQt.
\* Nothing disconnects read_json from readyRead, and read_gpios leaves its
\* own connection alone because self.components is None (line 327).
ReadJson ==
  /\ pin = "session" /\ slots.read_json /\ Len(fed) < MaxFed
  /\ \E chunk \in ChunksUpTo(MaxFed - Len(fed)) :
       LET new == ReadJsonStep(Acc, chunk)
       IN /\ brackets' = new.brackets /\ hasData' = new.hasData
          /\ data' = new.data /\ jsons' = new.jsons
          /\ doneEmits' = new.doneEmits /\ writes' = new.writes
          /\ fed' = fed \o chunk
          /\ chunks' = chunks + 1
          /\ lastExc' = new.exc
          /\ slots' = slots
          /\ pin' \in (IF new.exc = "None" THEN {"session"}
                       ELSE {"session", "crashed"})
  /\ UNCHANGED notFrameVars

FrameNext == ReadInitConfig \/ ReadJson

(***************************************************************************)
(* The serial connections to the selected port: the dialogs the main       *)
(* window opens on it (sendCommandDialog, openPinConfig, get_ip,           *)
(* send_config) and the connection esptool holds during a driver call of a *)
(* flashing run.  A dialog that Tasmotizer.cmdDlg stops referring to is     *)
(* released, and its QSerialPort with it.                                  *)
(***************************************************************************)
PortsIdle ==
  /\ cmdKind = "none" /\ cmdVis = "none" /\ cmdOpen = FALSE
  /\ mainPort = "none" /\ modal = "none"
  /\ espState = "none" /\ espCalls = 0 /\ portOps = 0

\* a QSerialPort of this program holds the port
QtHeld == cmdOpen \/ mainPort = "open"

\* the results QSerialPort.open() can have: it fails while another
\* QSerialPort holds the port (exclusive access) and can fail on a free port
QtOpenResults == IF QtHeld THEN {FALSE} ELSE BOOLEAN

\* the main window accepts a click: no modal dialog is running
MainIdle == modal = "none" /\ portOps < MaxPortOps

\* Tasmotizer.sendCommandDialog: CommandDialog.__init__ opens the port, then
\* cmdDlg refers to the new window
SendCommandDialog ==
  /\ MainIdle
  /\ \E ok \in QtOpenResults : cmdOpen' = ok
  /\ cmdKind' = "term" /\ cmdVis' = "shown"
  /\ portOps' = portOps + 1
  /\ UNCHANGED << mainPort, modal, espState, espCalls >>
  /\ UNCHANGED notPortVars

\* Tasmotizer.openPinConfig: PinConfigDialog.__init__ opens the port
OpenPinConfig ==
  /\ MainIdle
  /\ \E ok \in QtOpenResults : cmdOpen' = ok
  /\ cmdKind' = "pin" /\ cmdVis' = "shown"
  /\ portOps' = portOps + 1
  /\ UNCHANGED << mainPort, modal, espState, espCalls >>
  /\ UNCHANGED notPortVars

\* the non-modal window can be used: it is shown and no modal dialog runs
CmdUsable(kind) == cmdKind = kind /\ cmdVis = "shown" /\ modal = "none"

\* PinConfigDialog.accept (Save): done(Accepted), the window hides
PinAccept ==
  /\ CmdUsable("pin")
  /\ cmdVis' = "saved"
  /\ UNCHANGED << cmdKind, cmdOpen, mainPort, modal, espState, espCalls, portOps >>
  /\ UNCHANGED notPortVars

\* PinConfigDialog Close button: QDialog.reject, the window hides
PinReject ==
  /\ CmdUsable("pin")
  /\ cmdVis' = "rejected"
  /\ UNCHANGED << cmdKind, cmdOpen, mainPort, modal, espState, espCalls, portOps >>
  /\ UNCHANGED notPortVars

\* PinConfigDialog.closeEvent: self.port.close()
PinCloseEvent ==
  /\ CmdUsable("pin")
  /\ cmdVis' = "closed" /\ cmdOpen' = FALSE
  /\ UNCHANGED << cmdKind, mainPort, modal, espState, espCalls, portOps >>
  /\ UNCHANGED notPortVars

\* CommandDialog.closeEvent: self.port.close()
TermCloseEvent ==
  /\ CmdUsable("term")
  /\ cmdVis' = "closed" /\ cmdOpen' = FALSE
  /\ UNCHANGED << cmdKind, mainPort, modal, espState, espCalls, portOps >>
  /\ UNCHANGED notPortVars

\* Tasmotizer.get_ip up to exec_(): DeviceIP.__init__ opens the port
GetIp ==
  /\ MainIdle
  /\ \E ok \in QtOpenResults : mainPort' = IF ok THEN "open" ELSE "closed"
  /\ modal' = "ip"
  /\ portOps' = portOps + 1
  /\ UNCHANGED << cmdKind, cmdVis, cmdOpen, espState, espCalls >>
  /\ UNCHANGED notPortVars

\* Tasmotizer.get_ip after exec_(): close the port if it is open
GetIpReturn ==
  /\ modal = "ip"
  /\ mainPort' = "closed" /\ modal' = "none"
  /\ UNCHANGED << cmdKind, cmdVis, cmdOpen, espState, espCalls, portOps >>
  /\ UNCHANGED notPortVars

\* Tasmotizer.send_config: SendConfigDialog().exec_() starts
SendConfig ==
  /\ MainIdle
  /\ modal' = "cfg"
  /\ portOps' = portOps + 1
  /\ UNCHANGED << cmdKind, cmdVis, cmdOpen, mainPort, espState, espCalls >>
  /\ UNCHANGED notPortVars

\* send_config, dialog accepted with commands: open, write, message box
SendConfigWrite ==
  /\ modal = "cfg"
  /\ \E ok \in QtOpenResults : mainPort' = IF ok THEN "open" ELSE "closed"
  /\ modal' = "cfgbox"
  /\ UNCHANGED << cmdKind, cmdVis, cmdOpen, espState, espCalls, portOps >>
  /\ UNCHANGED notPortVars

\* send_config, dialog rejected or nothing to send: no port is touched
SendConfigNothing ==
  /\ modal = "cfg"
  /\ modal' = "none"
  /\ UNCHANGED << cmdKind, cmdVis, cmdOpen, mainPort, espState, espCalls, portOps >>
  /\ UNCHANGED notPortVars

\* send_config: the message box is closed, finally: close the port if open
SendConfigFinally ==
  /\ modal = "cfgbox"
  /\ mainPort' = "closed" /\ modal' = "none"
  /\ UNCHANGED << cmdKind, cmdVis, cmdOpen, espState, espCalls, portOps >>
  /\ UNCHANGED notPortVars

\* Tasmotizer.start_process: a ProcessDialog runs and its worker is started
PortFlashStart ==
  /\ MainIdle /\ espState \in {"none", "ended"}
  /\ modal' = "flash" /\ espState' = "idle" /\ espCalls' = 0
  /\ portOps' = portOps + 1
  /\ UNCHANGED << cmdKind, cmdVis, cmdOpen, mainPort >>
  /\ UNCHANGED notPortVars

\* esptool.main opens its own connection to the port; whether that works
\* while a QSerialPort holds the port is decided by the platform
EsptoolOpen ==
  /\ espState = "idle" /\ espCalls < 2
  /\ \E ok \in BOOLEAN : espState' = IF ok THEN "conn" ELSE "ended"
  /\ espCalls' = espCalls + 1
  /\ UNCHANGED << cmdKind, cmdVis, cmdOpen, mainPort, modal, portOps >>
  /\ UNCHANGED notPortVars

\* esptool.main ends and closes its connection; the worker goes on or ends
EsptoolClose ==
  /\ espState = "conn"
  /\ espState' \in {"idle", "ended"}
  /\ UNCHANGED << cmdKind, cmdVis, cmdOpen, mainPort, modal, espCalls, portOps >>
  /\ UNCHANGED notPortVars

\* ESPWorker.run ends without a further driver call
EsptoolDone ==
  /\ espState = "idle"
  /\ espState' = "ended"
  /\ UNCHANGED << cmdKind, cmdVis, cmdOpen, mainPort, modal, espCalls, portOps >>
  /\ UNCHANGED notPortVars

\* process_dlg.exec_() returns and the result box is closed
PortFlashReturn ==
  /\ modal = "flash"
  /\ modal' = "none"
  /\ UNCHANGED << cmdKind, cmdVis, cmdOpen, mainPort, espState, espCalls, portOps >>
  /\ UNCHANGED notPortVars

PortNext ==
  \/ SendCommandDialog \/ OpenPinConfig \/ PinAccept \/ PinReject
  \/ PinCloseEvent \/ TermCloseEvent \/ GetIp \/ GetIpReturn
  \/ SendConfig \/ SendConfigWrite \/ SendConfigNothing \/ SendConfigFinally
  \/ PortFlashStart \/ EsptoolOpen \/ EsptoolClose \/ EsptoolDone
  \/ PortFlashReturn

\* how many connections to the port are open
NumOpen ==
  (IF cmdOpen THEN 1 ELSE 0) + (IF mainPort = "open" THEN 1 ELSE 0)
  + (IF espState = "conn" THEN 1 ELSE 0)

(***************************************************************************)
(* The firmware catalogs: the documents the two feeds deliver, and         *)
(* setBinMode / fill_bin_combo, which read them.  A document is what       *)
(* json.loads makes of it: no JSON at all, a number, a list, or an object  *)
(* given by the values of its entries in order; a list of images is given  *)
(* by the kind of each image.                                              *)
(***************************************************************************)
ImageKinds == {"good", "nosize", "nourl", "notobject"}

\* the value of a catalog entry: a number, or a list of up to two images
BinsValues ==
  {[kind |-> "number", imgs |-> << >>]}
  \cup {[kind |-> "list", imgs |-> is] :
          is \in UNION {[1 .. k -> ImageKinds] : k \in 0 .. 2}}

GoodBins == [kind |-> "list", imgs |-> << "good" >>]

\* no document has been processed
NoDoc == [kind |-> "none", entries |-> << >>]

\* b'': nothing has arrived; str(b'', 'utf8') is not JSON
EmptyData == [kind |-> "notjson", entries |-> << >>]

Docs ==
  {[kind |-> k, entries |-> << >>] : k \in {"notjson", "badutf8", "number", "list", "object"}}
  \cup {[kind |-> "object", entries |-> << v >>] : v \in BinsValues}
  \cup {[kind |-> "object", entries |-> << GoodBins, GoodBins >>]}

RECURSIVE AddItems(_, _)
\* the loop of lines 1048-1050 over the images: the items added and the
\* exception that ended it, if any
AddItems(items, imgs) ==
  IF imgs = << >> THEN [items |-> items, exc |-> "None"]
  ELSE IF Head(imgs) = "notobject" THEN [items |-> items, exc |-> "TypeError"]
  ELSE IF Head(imgs) \in {"nosize", "nourl"} THEN [items |-> items, exc |-> "KeyError"]
  ELSE AddItems(Append(items, "otaurl"), Tail(imgs))

\* Tasmotizer.fill_bin_combo on a document, in mode m with the combo as it is:
\* the mode, the combo, whether the error box was shown, and the exception
\* that left the function
FillBinCombo(doc, m, items, enabled) ==
  LET same(e) == [mode |-> m, combo |-> items, enabled |-> enabled,
                  reported |-> FALSE, exc |-> e]
  IN IF doc.kind = "badutf8" THEN same("UnicodeDecodeError")
     ELSE IF doc.kind = "notjson"
     THEN \* except json.JSONDecodeError: setBinMode(0), message box
          [mode |-> 0, combo |-> items, enabled |-> enabled, reported |-> TRUE,
           exc |-> "None"]
     ELSE IF doc.kind # "object" THEN same("AttributeError")
     ELSE IF doc.entries = << >> THEN same("IndexError")
     ELSE LET bins == doc.entries[1]
          IN IF bins.kind # "list" THEN same("TypeError")
             ELSE IF Len(bins.imgs) = 0 THEN same("None")
             ELSE LET r == AddItems(<< >>, bins.imgs)
                  IN [mode |-> m, combo |-> r.items,
                      enabled |-> IF r.exc = "None" THEN TRUE ELSE enabled,
                      reported |-> FALSE, exc |-> r.exc]

CatalogIdle ==
  /\ release_data = EmptyData /\ development_data = EmptyData
  /\ mode = 0 /\ combo = << >> /\ comboEnabled = FALSE
  /\ lastDoc = NoDoc /\ catReported = FALSE /\ catExc = "None" /\ cat = "alive"

\* the release feed has delivered its document
AppendReleaseInfo ==
  /\ cat = "alive" /\ release_data = EmptyData
  /\ release_data' \in Docs \ {EmptyData}
  /\ UNCHANGED << development_data, mode, combo, comboEnabled, lastDoc,
                  catReported, catExc, cat >>
  /\ UNCHANGED notCatVars

\* the development feed has delivered its document
AppendDevelopmentInfo ==
  /\ cat = "alive" /\ development_data = EmptyData
  /\ development_data' \in Docs \ {EmptyData}
  /\ UNCHANGED << release_data, mode, combo, comboEnabled, lastDoc,
                  catReported, catExc, cat >>
  /\ UNCHANGED notCatVars

\* Tasmotizer.setBinMode(radio): set the mode and, for the release and the
\* development mode, fill the combo from the feed's document; an exception
\* leaving the slot ends the process or is dropped by PyQt
SetBinMode ==
  /\ cat = "alive"
  /\ \E radio \in 0 .. 2 :
       IF radio = 0
       THEN /\ mode' = 0 /\ lastDoc' = NoDoc
            /\ catReported' = FALSE /\ catExc' = "None"
            /\ UNCHANGED << combo, comboEnabled, cat >>
       ELSE LET doc == IF radio = 1 THEN release_data ELSE development_data
                r == FillBinCombo(doc, radio, combo, comboEnabled)
            IN /\ mode' = r.mode /\ combo' = r.combo
               /\ comboEnabled' = r.enabled
               /\ lastDoc' = doc
               /\ catReported' = r.reported /\ catExc' = r.exc
               /\ cat' \in (IF r.exc = "None" THEN {"alive"} ELSE {"alive", "crashed"})
  /\ UNCHANGED << release_data, development_data >>
  /\ UNCHANGED notCatVars

CatalogNext == AppendReleaseInfo \/ AppendDevelopmentInfo \/ SetBinMode

(***************************************************************************)
(* The progress bar of the download stage: the reply's downloadProgress    *)
(* notifications and ProcessDialog.updateBinProgress.                      *)
(***************************************************************************)
\* Python's a // b for b # 0: the floor of the quotient
FloorDiv(a, b) == IF b > 0 THEN a \div b ELSE (0 - a) \div (0 - b)

\* ProcessDialog.updateBinProgress: the value handed to setValue
BinProgressValue(recv, total) == FloorDiv(recv, total) * 100

ProgIdle ==
  /\ prog = "none" /\ bytesTotal = -1 /\ bytesReceived = 0
  /\ progress = << >> /\ progExc = "None"

\* ProcessDialog.download_bin: the request is sent; the size of the body is
\* announced by the server or unknown (-1)
DownloadBin ==
  /\ prog = "none"
  /\ prog' = "running"
  /\ bytesTotal' \in -1 .. MaxBytes
  /\ UNCHANGED << bytesReceived, progress, progExc >>
  /\ UNCHANGED notProgVars

\* downloadProgress(bytesReceived, bytesTotal): updateBinProgress runs; an
\* exception leaving the slot ends the process or is dropped by PyQt
UpdateBinProgress ==
  /\ prog = "running" /\ Len(progress) < MaxNotes /\ progExc = "None"
  /\ \E recv \in bytesReceived .. (IF bytesTotal > 0 THEN bytesTotal ELSE MaxBytes) :
       /\ bytesReceived' = recv
       /\ IF bytesTotal = 0
          THEN \* recv // 0
               /\ progExc' = "ZeroDivisionError"
               /\ prog' \in {"running", "crashed"}
               /\ UNCHANGED progress
          ELSE /\ progress' = Append(progress, BinProgressValue(recv, bytesTotal))
               /\ UNCHANGED << prog, progExc >>
  /\ UNCHANGED bytesTotal
  /\ UNCHANGED notProgVars

ProgressNext == DownloadBin \/ UpdateBinProgress

(***************************************************************************)
(* DeviceIP: the dialog of get_ip.  It writes 'IPAddress1' and searches    *)
(* everything read so far for an address in parentheses.  A byte is one of *)
(* the characters below, or "bad", a byte that is not valid UTF-8.         *)
(***************************************************************************)
Placeholder == << "x", "x", ".", "x", "x", ".", "x", "x", ".", "x", "x" >>

Quad1 == << "1", ".", "2", ".", "1", ".", "2" >>

Quad2 == << "2", "2", ".", "2", ".", "2", ".", "2", "2", "2" >>

Paren(q) == << "(" >> \o q \o << ")" >>

\* the answers of the device the model feeds
IpResponses ==
  { Paren(Quad1),
    << "x" >> \o Paren(Quad1) \o << "x" >>,
    Paren(Quad1) \o << "bad" >>,
    << "bad" >> \o Paren(Quad1),
    Quad1,
    Paren(<< "1", ".", "1", ".", "1" >>),
    Paren(<< "1", "1", "1", "1", ".", "1", ".", "1", ".", "1" >>),
    << "(" >> \o Paren(Quad2),
    Paren(Quad1) \o Paren(Quad2),
    << "x", ")", "(" >> }

Digit(b) == b \in {"1", "2"}

\* (?:[0-9]{1,3}\.){3}[0-9]{1,3} matches the whole of s
IsQuad(s) ==
  LET dots == {i \in DOMAIN s : s[i] = "."}
  IN /\ \A i \in DOMAIN s \ dots : Digit(s[i])
     /\ \E d1, d2, d3 \in DOMAIN s :
          /\ d1 < d2 /\ d2 < d3 /\ dots = {d1, d2, d3}
          /\ d1 - 1 \in 1 .. 3 /\ d2 - d1 - 1 \in 1 .. 3
          /\ d3 - d2 - 1 \in 1 .. 3 /\ Len(s) - d3 \in 1 .. 3

\* the matches of re_ip in a text, as pairs of the positions of '(' and ')'
ReIpMatches(text) ==
  {m \in (DOMAIN text) \X (DOMAIN text) :
     /\ m[1] < m[2] /\ text[m[1]] = "(" /\ text[m[2]] = ")"
     /\ IsQuad(SubSeq(text, m[1] + 1, m[2] - 1))}

\* re_ip.search(text): group 1 of the leftmost match, or no match
ReIpSearch(text) ==
  LET ms == ReIpMatches(text)
      m == CHOOSE x \in ms : \A y \in ms : x[1] <= y[1]
  IN IF ms = {} THEN << >> ELSE << SubSeq(text, m[1] + 1, m[2] - 1) >>

\* bytes(data).decode('utf8') succeeds
DecodeOk(bs) == \A i \in DOMAIN bs : bs[i] # "bad"

\* DeviceIP.read on one chunk
IpReadStep(st, chunk) ==
  LET buf == st.data \o chunk
      match == ReIpSearch(buf)
  IN IF ~DecodeOk(buf)
     THEN \* UnicodeDecodeError, swallowed by the bare except
          [st EXCEPT !.data = buf]
     ELSE IF match # << >> THEN [data |-> buf, text |-> match[1]]
     ELSE [st EXCEPT !.data = buf]

IpIdle ==
  /\ ipDlg = "none" /\ ipResp = << >> /\ ipPos = 0 /\ ipData = << >>
  /\ ipText = Placeholder /\ ipChunks = 0

\* Tasmotizer.get_ip, DeviceIP.__init__: the dialog opens and the request is
\* written; the device will answer with some bytes
DeviceIPInit ==
  /\ ipDlg = "none"
  /\ ipDlg' = "open"
  /\ ipResp' \in IpResponses
  /\ ipData' = << >> /\ ipText' = Placeholder
  /\ UNCHANGED << ipPos, ipChunks >>
  /\ UNCHANGED notIpVars

\* readyRead: DeviceIP.read runs on the chunk port.readAll() returns
DeviceIPRead ==
  /\ ipDlg = "open" /\ ipPos < Len(ipResp)
  /\ \E k \in 1 .. Len(ipResp) - ipPos :
       LET new == IpReadStep([data |-> ipData, text |-> ipText],
                             SubSeq(ipResp, ipPos + 1, ipPos + k))
       IN /\ ipData' = new.data /\ ipText' = new.text
          /\ ipPos' = ipPos + k
  /\ ipChunks' = ipChunks + 1
  /\ UNCHANGED << ipDlg, ipResp >>
  /\ UNCHANGED notIpVars

IpNext == DeviceIPInit \/ DeviceIPRead

(***************************************************************************)
(* Flashing runs one after another.  Each run has its own ProcessDialog    *)
(* and ESPWorker; the continue flag is one object of the esptool module,   *)
(* shared by all of them.  The dialog of a run is a local variable of      *)
(* start_process: it can receive its worker's signals until start_process  *)
(* returns.  The steps of the GUI thread are taken as whole handlers.      *)
(***************************************************************************)
RunIds == 1 .. MaxRuns

NoWorker ==
  [pc |-> "none", acts |-> << >>, auto_reset |-> FALSE, cont |-> FALSE,
   aborted |-> FALSE, late |-> FALSE]

\* the value of the flag before the first run is never read: run() assigns
\* it in its first statement
RunsIdle ==
  /\ sw = FALSE /\ swBy = 0 /\ runs = 0 /\ rdlg = "idle"
  /\ wk = [r \in RunIds |-> NoWorker] /\ rproc = "alive"

\* the dialog of run r exists: its slots run when its worker signals
DialogAlive(r) == r = runs /\ rdlg \in {"exec", "box"}

\* Tasmotizer.start_process: ProcessDialog(...), run_esp(), exec_()
RunStart ==
  /\ rproc = "alive" /\ rdlg = "idle" /\ runs < MaxRuns
  /\ \E fp \in {NoPath, LocalPath}, bk \in BOOLEAN, er \in BOOLEAN,
        ar \in BOOLEAN :
       wk' = [wk EXCEPT ![runs + 1] =
                [pc |-> "start", acts |-> BuildActions(fp, bk, er),
                 auto_reset |-> ar, cont |-> FALSE, aborted |-> FALSE,
                 late |-> FALSE]]
  /\ runs' = runs + 1 /\ rdlg' = "exec"
  /\ UNCHANGED << sw, swBy, rproc >>
  /\ UNCHANGED notRunVars

\* ESPWorker.run, line 50: esptool.sw.setContinueFlag(True)
RunWorkerStart ==
  /\ rproc = "alive"
  /\ \E r \in RunIds :
       /\ wk[r].pc = "start"
       /\ sw' = TRUE /\ swBy' = r
       /\ wk' = [wk EXCEPT ![r].pc =
                   IF In("backup", wk[r].acts) THEN "in_backup" ELSE "check"]
  /\ UNCHANGED << runs, rdlg, rproc >>
  /\ UNCHANGED notRunVars

\* the read_flash call returns or raises; without auto_reset the worker
\* enters wait_for_user (self._continue = False, waiting.emit())
RunBackupEnds ==
  /\ rproc = "alive"
  /\ \E r \in RunIds, raises \in BOOLEAN :
       /\ wk[r].pc = "in_backup"
       /\ wk' = [wk EXCEPT ![r].pc = IF raises THEN "emit_error"
                                     ELSE IF wk[r].auto_reset THEN "check"
                                     ELSE "waiting",
                           ![r].cont = IF raises \/ wk[r].auto_reset
                                       THEN wk[r].cont ELSE FALSE]
  /\ UNCHANGED << sw, swBy, runs, rdlg, rproc >>
  /\ UNCHANGED notRunVars

\* ProcessDialog.wait_for_user, the user answers Ok: esp.continue_ok()
RunBoxOk ==
  /\ rproc = "alive"
  /\ \E r \in RunIds :
       /\ wk[r].pc = "waiting" /\ ~wk[r].cont /\ DialogAlive(r)
       /\ wk' = [wk EXCEPT ![r].cont = TRUE]
  /\ UNCHANGED << sw, swBy, runs, rdlg, rproc >>
  /\ UNCHANGED notRunVars

\* ProcessDialog.wait_for_user, the user answers Cancel: esp.abort(),
\* esp.continue_ok(), self.abort()
RunBoxCancel ==
  /\ rproc = "alive"
  /\ \E r \in RunIds :
       /\ wk[r].pc = "waiting" /\ ~wk[r].cont /\ DialogAlive(r)
       /\ wk' = [wk EXCEPT ![r].cont = TRUE, ![r].aborted = TRUE]
  /\ sw' = FALSE /\ rdlg' = "box"
  /\ UNCHANGED << swBy, runs, rproc >>
  /\ UNCHANGED notRunVars

\* ESPWorker.wait_for_user: the loop ends once the latch is set
RunLeaveWait ==
  /\ rproc = "alive"
  /\ \E r \in RunIds :
       /\ wk[r].pc = "waiting" /\ wk[r].cont
       /\ wk' = [wk EXCEPT ![r].pc = "check"]
  /\ UNCHANGED << sw, swBy, runs, rdlg, rproc >>
  /\ UNCHANGED notRunVars

\* ESPWorker.run, line 62: the write stage is started if the flag is set
RunCheck ==
  /\ rproc = "alive"
  /\ \E r \in RunIds :
       /\ wk[r].pc = "check"
       /\ wk' = IF sw /\ In("write", wk[r].acts)
                THEN [wk EXCEPT ![r].pc = "in_write",
                                ![r].late = wk[r].aborted /\ swBy # r]
                ELSE [wk EXCEPT ![r].pc = "emit_done"]
  /\ UNCHANGED << sw, swBy, runs, rdlg, rproc >>
  /\ UNCHANGED notRunVars

\* the write_flash call returns or raises
RunWriteEnds ==
  /\ rproc = "alive"
  /\ \E r \in RunIds, raises \in BOOLEAN :
       /\ wk[r].pc = "in_write"
       /\ wk' = [wk EXCEPT ![r].pc = IF raises THEN "emit_error"
                                     ELSE "emit_done"]
  /\ UNCHANGED << sw, swBy, runs, rdlg, rproc >>
  /\ UNCHANGED notRunVars

\* line 71: error.emit(e); ProcessDialog.error of the run's dialog, if it
\* still exists: self.exception = e, abort()
RunEmitError ==
  /\ rproc = "alive"
  /\ \E r \in RunIds :
       /\ wk[r].pc = "emit_error"
       /\ IF DialogAlive(r)
          THEN /\ wk' = [wk EXCEPT ![r].pc = "emit_done", ![r].aborted = TRUE]
               /\ sw' = FALSE /\ rdlg' = "box"
          ELSE /\ wk' = [wk EXCEPT ![r].pc = "emit_done"]
               /\ UNCHANGED << sw, rdlg >>
  /\ UNCHANGED << swBy, runs, rproc >>
  /\ UNCHANGED notRunVars

\* line 72: done.emit(); ProcessDialog.accept of the run's dialog, if it is
\* still in exec_()
RunEmitDone ==
  /\ rproc = "alive"
  /\ \E r \in RunIds :
       /\ wk[r].pc = "emit_done"
       /\ wk' = [wk EXCEPT ![r].pc = "finished"]
       /\ rdlg' = IF r = runs /\ rdlg = "exec" THEN "box" ELSE rdlg
  /\ UNCHANGED << sw, swBy, runs, rproc >>
  /\ UNCHANGED notRunVars

\* the Abort button of the dialog in exec_(): ProcessDialog.abort calls
\* esp.abort(), stop_thread() (which waits at most two seconds) and reject()
RunAbort ==
  /\ rproc = "alive" /\ rdlg = "exec"
  /\ wk' = [wk EXCEPT ![runs].aborted = TRUE]
  /\ sw' = FALSE /\ rdlg' = "box"
  /\ UNCHANGED << swBy, runs, rproc >>
  /\ UNCHANGED notRunVars

\* the result message box is closed and start_process returns: the dialog
\* is released.  If its thread is still running, PyQt either destroys the
\* running QThread, which ends the process, or the thread goes on
RunReturn ==
  /\ rproc = "alive" /\ rdlg = "box"
  /\ rdlg' = "idle"
  /\ rproc' \in (IF wk[runs].pc = "finished" THEN {"alive"}
                  ELSE {"alive", "crashed"})
  /\ UNCHANGED << sw, swBy, runs, wk >>
  /\ UNCHANGED notRunVars

RunsNext ==
  \/ RunStart \/ RunWorkerStart \/ RunBackupEnds \/ RunBoxOk \/ RunBoxCancel
  \/ RunLeaveWait \/ RunCheck \/ RunWriteEnds \/ RunEmitError \/ RunEmitDone
  \/ RunAbort \/ RunReturn

FrameIdle ==
  /\ pin = "none" /\ brackets = [open |-> 0, close |-> 0] /\ hasData = FALSE
  /\ data = << >> /\ jsons = << >> /\ doneEmits = 0 /\ writes = << >>
  /\ fed = << >> /\ chunks = 0 /\ lastExc = "None"
  /\ slots = [read_json |-> FALSE, read_gpios |-> FALSE]

InitFlash == FlashInit /\ FrameIdle /\ PortsIdle /\ CatalogIdle /\ ProgIdle
  /\ IpIdle /\ RunsIdle

\* the flashing pipeline alone
SpecFlash == InitFlash /\ [][FlashNext]_vars

InitFrame == FlashInit /\ FrameIdle /\ PortsIdle /\ CatalogIdle /\ ProgIdle
  /\ IpIdle /\ RunsIdle

\* the serial session of the pin configuration dialog alone
SpecFrame == InitFrame /\ [][FrameNext]_vars

InitPorts == FlashInit /\ FrameIdle /\ PortsIdle /\ CatalogIdle /\ ProgIdle
  /\ IpIdle /\ RunsIdle

\* the main window's serial actions alone
SpecPorts == InitPorts /\ [][PortNext]_vars

InitCatalog == FlashInit /\ FrameIdle /\ PortsIdle /\ CatalogIdle /\ ProgIdle
  /\ IpIdle /\ RunsIdle

\* the image mode and the firmware catalogs alone
SpecCatalog == InitCatalog /\ [][CatalogNext]_vars

InitProgress == FlashInit /\ FrameIdle /\ PortsIdle /\ CatalogIdle /\ ProgIdle
  /\ IpIdle /\ RunsIdle

\* the progress notifications of a download alone
SpecProgress == InitProgress /\ [][ProgressNext]_vars

InitIp == FlashInit /\ FrameIdle /\ PortsIdle /\ CatalogIdle /\ ProgIdle
  /\ IpIdle /\ RunsIdle

\* the IP address dialog alone
SpecIp == InitIp /\ [][IpNext]_vars

InitRuns == FlashInit /\ FrameIdle /\ PortsIdle /\ CatalogIdle /\ ProgIdle
  /\ IpIdle /\ RunsIdle

\* runs one after another alone
SpecRuns == InitRuns /\ [][RunsNext]_vars

Init == FlashInit /\ FrameIdle /\ PortsIdle /\ CatalogIdle /\ ProgIdle
  /\ IpIdle /\ RunsIdle

Next ==
  \/ FlashNext \/ FrameNext \/ PortNext \/ CatalogNext \/ ProgressNext
  \/ IpNext \/ RunsNext

\* the whole program
Spec == Init /\ [][Next]_vars

\* the steps of the GUI thread: it runs the handlers of the events posted to
\* it, and the user answers the modal message box
GuiStep ==
  \/ SaveBinFile \/ SaveBinFileError \/ WaitForUserBox \/ Accept \/ Error
  \/ AbortClicked \/ ProcessEventsReturn \/ AbortEspAbort \/ AbortNoEsp
  \/ AbortReject \/ UserOk \/ UserCancel \/ CancelEspAbort \/ CancelContinueOk
  \/ ExecReturn

\* the steps of the worker thread; a driver call returns or raises
WorkerStep ==
  \/ WorkerRunStart \/ WorkerBackupCall \/ DriverReturn \/ DriverRaise
  \/ WorkerWaitEnter \/ WorkerWaitLeave \/ WorkerWriteCall \/ WorkerSkipWrite
  \/ WorkerEmitError \/ WorkerEmitDone

\* the flashing pipeline with both threads scheduled and the network reply
\* finishing
SpecFlashFair ==
  /\ InitFlash /\ [][FlashNext]_vars
  /\ WF_vars(GuiStep) /\ WF_vars(WorkerStep)
  /\ WF_vars(AppendBinFile) /\ WF_vars(DownloadFinished)

(***************************************************************************)
(* Properties stated by the specification.                                 *)
(***************************************************************************)
\* exec_() has returned and the controller has shown the run's outcome
Reported == phase \in {"reported", "closed"}

\* a driver call is in progress at worker position st
InStage(st) == st \in {"in_backup", "in_write"}

\* the write driver call has been started
HasWrite == \E i \in DOMAIN driverCalls : driverCalls[i].op = "write_flash"

\* C1: a run produces exactly one terminal outcome: within one run the dialog
\* never calls both done(Accepted) and done(Rejected).
C1_ExactlyOneOutcome ==
  ~(In("Accepted", doneCalls) /\ In("Rejected", doneCalls))

\* C2: with a backup, auto_reset off and a write stage, the worker enters
\* wait_for_user at most once, only after the backup call has returned, it has
\* entered it once the backup has returned, and the write call starts only
\* after that entry and after continue_ok() has been called.
C2_CheckpointBetweenBackupAndWrite ==
  (backup /\ ~auto_reset /\ In("write", actions)) =>
    /\ waitEntries <= 1
    /\ waitEntries = 1 => (returns >= 1 /\ driverCalls[1].op = "read_flash")
    /\ (returns >= 1 /\ wpc # "wait_enter") => waitEntries = 1
    /\ HasWrite => /\ waitEntries = 1 /\ continueCalls >= 1
                   /\ Len(driverCalls) = 2
                   /\ driverCalls[2].op = "write_flash"

\* C2 witness: backup, no auto reset, erase: the write call is running after
\* the checkpoint was acknowledged with Ok, no abort involved.
C2_Witness ==
  /\ backup /\ ~auto_reset /\ erase /\ wpc = "in_write"
  /\ waitEntries = 1 /\ continueCalls = 1 /\ abortCalls = 0

\* C3: once ESPWorker.abort() has been called while a driver call was in
\* progress, no further driver call starts and the run's outcome is
\* "aborted by the user".
C3_AbortDuringStage ==
  /\ InStage(stageAtAbort) => Len(driverCalls) = callsAtAbort
  /\ (InStage(stageAtAbort) /\ Reported) => shown = "aborted"

\* C4: once saveBinFile has seen a reply with an error, the run is Failed with
\* NetworkError: nothing was saved, the worker was never created, no driver
\* call was made, the program goes on, and the outcome the controller reports
\* for the run is NetworkError.
C4_DownloadFailureReported ==
  /\ dlFailed => (~saved /\ ~espExists /\ driverCalls = << >> /\ Alive)
  /\ (dlFailed /\ Reported) => shown = "NetworkError"

\* C8: every read_flash call carries a length of exactly 2^n MB for the size
\* class n chosen in the main window.
C8_BackupRegionIsPow2MB ==
  \A i \in DOMAIN driverCalls :
    driverCalls[i].op = "read_flash"
      => ArgValue(driverCalls[i].size) = Pow2(backup_size) * Pow2(20)

\* C9, first part: after a driver call has raised, the worker only emits error
\* and done: the raising call is the last one, no checkpoint follows a failed
\* backup, and the exception the dialog records is the one raised.
C9_FailureStopsRun ==
  /\ raised # "None" => /\ wpc \in {"emit_error", "emit_done", "finished"}
                        /\ returns = Len(driverCalls) - 1
  /\ (raised # "None" /\ Len(driverCalls) = 1) => waitEntries = 0
  /\ (raised # "None" /\ exception # "None") => exception = raised

\* C9 as stated: whenever a driver call has raised, the outcome shown is the
\* failure with that cause.
C9_FailureAlwaysShown ==
  /\ C9_FailureStopsRun
  /\ (raised # "None" /\ Reported) => shown = raised

\* C9 as amended: the same, for runs in which the user has not pressed Abort
\* or Cancel and has not closed the dialog; in the other runs the outcome
\* shown is that cause or "aborted by the user", never success.
C9_FailureShownUnlessUserEnded ==
  /\ C9_FailureStopsRun
  /\ (raised # "None" /\ Reported /\ ~userActed) => shown = raised
  /\ (raised # "None" /\ Reported) => shown \in {raised, "aborted"}

\* C9 witness: the write call raised, nobody touched the dialog, and the
\* controller shows the cause.
C9_Witness ==
  /\ raised = "SerialException" /\ ~userActed /\ phase = "reported"
  /\ Len(driverCalls) = 2

\* C10: a worker in wait_for_user after an abort issued during the backup or
\* during the wait has its latch released whenever the GUI thread is back in
\* an event loop.
C10_AbortReleasesWait ==
  (stageAtAbort \in {"in_backup", "waiting"} /\ wpc = "waiting"
   /\ mstack = << >>) => wcontinue

\* C5: feeding the bytes chunk by chunk completes the same messages, and as
\* many times, as feeding their concatenation in one call.
C5_ChunkIndependence ==
  chunks >= 1 =>
    LET whole == ReadJsonStep(AccInit, fed)
    IN jsons = whole.jsons /\ doneEmits = whole.doneEmits

\* C5 witness: an object has arrived in three chunks.
C5_Witness == chunks = 3 /\ fed = << "{", "x", "}" >>

\* C6: as long as no '{' has been fed, nothing completes: no message, no
\* components_done, and the buffer still holds every byte fed.
C6_NoCompletionBeforeOpen ==
  (pin # "none" /\ ~In("{", fed)) =>
    /\ doneEmits = 0 /\ jsons = << >> /\ Len(writes) = 1
    /\ hasData => data = fed

\* C6 witness: a lone '}' was the first chunk, another '}' followed.
C6_Witness == pin = "session" /\ chunks = 2 /\ fed = << "}", "}" >>

\* a response holding a nested object, as in {"a": {"b": 1}} cut to the bound
NestedResponse == << "{", "x", "{", "}", "}" >>

\* C7: a response with a nested object completes exactly one message: none
\* when the inner object closes, one when the outer one does.
C7_NestedCompletesOnce ==
  /\ fed = SubSeq(NestedResponse, 1, 4) => (doneEmits = 0 /\ jsons = << >>)
  /\ fed = NestedResponse => (doneEmits = 1 /\ jsons = << NestedResponse >>)

\* C11: an abort requested while the download is still in progress (the flash
\* worker does not exist yet) forces the driver continue flag to false and
\* makes the run Aborted: the program goes on, no driver call is ever started
\* in that run, and the outcome reported is "aborted by the user".
C11_AbortDuringDownload ==
  /\ abortNoEsp => (Alive /\ ~continueFlag /\ driverCalls = << >>)
  /\ (abortNoEsp /\ Reported) => shown = "aborted"

\* the run has a download stage: the reply is in flight, waits in the event
\* queue, or has been handled by saveBinFile
HadDownload ==
  downloading \/ saved \/ dlFailed \/ \E i \in DOMAIN queue : queue[i].t = "finished"

\* the driver calls that are in progress
InProgress == IF InStage(wpc) THEN 1 ELSE 0

\* C12: the stages of a run execute one after the other in the order
\* Download, Backup, Write: no driver call starts before the download has
\* finished and been saved, read_flash comes before write_flash, write_flash
\* starts only after read_flash has returned, and at most one stage is in
\* progress at any time.
C12_StagesInSequence ==
  /\ (HadDownload /\ (espExists \/ driverCalls # << >>)) => (saved /\ ~downloading)
  /\ downloading => (driverCalls = << >> /\ wpc = "nothread")
  /\ \A i \in DOMAIN driverCalls :
       /\ driverCalls[i].op = "read_flash" => i = 1
       /\ driverCalls[i].op = "write_flash" =>
            (i = Len(driverCalls) /\ returns >= i - 1 /\ (In("backup", actions) <=> i = 2))
  /\ Len(driverCalls) = returns + InProgress + (IF raised # "None" THEN 1 ELSE 0)

\* C12 witness: a run with all three stages has reached the write call.
C12_Witness ==
  /\ saved /\ Len(driverCalls) = 2 /\ wpc = "in_write"
  /\ driverCalls[1].op = "read_flash" /\ driverCalls[2].op = "write_flash"

\* the run has left the case C13 is about: a driver call raised, the download
\* failed, or the user pressed Abort or Cancel or closed the dialog
NotClean == userActed \/ raised # "None" \/ dlFailed

\* C13: a run in which no stage fails, no abort is requested and every
\* checkpoint is answered with Ok eventually ends, and the outcome the
\* controller shows is success.
C13_CleanRunSucceeds ==
  (phase = "exec") ~> (NotClean \/ (Reported /\ shown = "success"))

\* C13 witness: download, backup with checkpoint and write all went through
\* and the controller shows success.
C13_Witness ==
  /\ ~NotClean /\ phase = "reported" /\ shown = "success"
  /\ saved /\ waitEntries = 1 /\ Len(driverCalls) = 2 /\ returns = 2

\* the bracket counts say the frame is complete (line 346)
Balanced == brackets.open - brackets.close = 0

\* no JSON object text is found in the payload, or json.loads rejects it
Unparseable(payload) ==
  LET ret == JsonMatch(ToParse(payload))
  IN ret = << >> \/ ~ParseOk(ret[1])

\* C14: when the first frame of a session completes and its payload has no
\* JSON object text or cannot be parsed, a malformed-frame error is reported
\* and the program goes on: the frame is not counted as a response (no
\* message stored, no components_done, no further request written).
C14_MalformedFrameReported ==
  (chunks = 1 /\ Balanced /\ Unparseable(fed)) =>
    /\ pin = "session" /\ lastExc = "JSONDecodeError"
    /\ jsons = << >> /\ doneEmits = 0 /\ writes = << "GPIOs" >>

\* C15: in the two-step pin query the request 'GPIO' is written only after
\* 'GPIOs' and only after a response has been completed and parsed into a
\* JSON object: there are never more 'GPIO' requests than parsed messages,
\* and none after a first frame that is complete but has no parseable object.
C15_SecondRequestAfterParse ==
  /\ pin # "none" =>
       /\ Len(writes) >= 1 /\ writes[1] = "GPIOs"
       /\ \A i \in 2 .. Len(writes) : writes[i] = "GPIO"
  /\ Len(writes) <= 1 + Len(jsons)
  /\ (chunks = 1 /\ Balanced /\ Unparseable(fed)) => ~In("GPIO", writes)

\* C15 witness: the first response arrived complete by the bracket counts but
\* without a JSON object in it.
C15_Witness ==
  /\ pin = "session" /\ chunks = 1 /\ fed = << "}", "{" >>
  /\ Balanced /\ Unparseable(fed)

\* C16: a connection a component opened is closed once that component is
\* done: the pin configuration dialog after Save, Close or the window close
\* event, and the main window's port after get_ip and send_config returned.
C16_PortClosedOnExit ==
  /\ (cmdKind = "pin" /\ cmdVis \in {"saved", "rejected", "closed"}) => ~cmdOpen
  /\ modal \in {"none", "flash"} => mainPort # "open"

\* C17: at most one connection to the selected port is open at any time.
C17_AtMostOneConnection == NumOpen <= 1

\* the document is not a catalog: not JSON, not an object, an object without
\* entry, or an entry whose value is not a list of well-formed images
Malformed(doc) ==
  \/ doc.kind # "object"
  \/ doc.entries = << >>
  \/ doc.entries[1].kind # "list"
  \/ \E i \in DOMAIN doc.entries[1].imgs : doc.entries[1].imgs[i] # "good"

\* C18: when setBinMode has processed a malformed catalog document, the error
\* was reported, the mode is back to 0 (manual file selection), and no
\* exception left the call.
C18_MalformedCatalogHandled ==
  (lastDoc # NoDoc /\ Malformed(lastDoc)) =>
    (catExc = "None" /\ cat = "alive" /\ catReported /\ mode = 0)

\* C19: when flashing is started and no image is resolved (empty file path
\* in file mode, no catalog entry selected in the other modes), the run fails
\* with a missing-image error: no worker is started, no driver call is made,
\* and the outcome reported is that error, never success.
C19_MissingImageFails ==
  (phase # "idle" /\ file_path = NoPath /\ ~HadDownload) =>
    /\ ~espExists /\ driverCalls = << >>
    /\ Reported /\ shown = "NoBinFile"

\* C20: after each completed message the accumulator is back in its initial
\* state (open count 0, close count -1, empty buffer), and k well-formed
\* responses arriving one after another complete exactly k messages: two
\* objects {} {} fed as two chunks give two messages and two notifications.
C20_ResetAfterEachMessage ==
  /\ (chunks >= 1 /\ Balanced /\ lastExc = "None") =>
       /\ hasData /\ data = << >>
       /\ brackets = AccInit.brackets
  /\ (chunks = 2 /\ fed = << "{", "}", "{", "}" >>) =>
       (jsons = << << "{", "}" >>, << "{", "}" >> >> /\ doneEmits = 2)
  /\ (chunks = 1 /\ fed = << "{", "}" >>) =>
       (jsons = << << "{", "}" >> >> /\ doneEmits = 1)

\* C21: from one fed chunk to the next neither bracket count goes down,
\* except in a step that completes a message (and resets the counts).
C21_CountsMonotone ==
  [][(pin = "session" /\ chunks' = chunks + 1 /\ doneEmits' = doneEmits) =>
       /\ brackets'.open >= brackets.open
       /\ brackets'.close >= brackets.close]_vars

\* how often a request line has been written to the port
Written(line) == Cardinality({i \in DOMAIN writes : writes[i] = line})

\* C22: each request line of the pin query is written at most once in a
\* session, and once the response to the last request written is complete
\* (a balanced frame has arrived for 'GPIOs' and 'GPIO' was not sent) the
\* dialog no longer listens to the port.
C22_StopsListening ==
  /\ Written("GPIOs") <= 1 /\ Written("GPIO") <= 1
  /\ (pin = "session" /\ chunks >= 1 /\ brackets.open > 0 /\ Balanced
        /\ Written("GPIO") = 0)
       => ~slots.read_json

\* a ProcessDialog has been built for the run
Built == phase # "idle" /\ shown # "NoBinFile"

\* the image source is a URL: scheme, then '//'
IsUrl(p) == Len(p) >= 3 /\ p[1] = "http:" /\ p[2] = ""

\* the position of a stage in the fixed order
StageRank(st) ==
  CASE st = "download" -> 1 [] st = "backup" -> 2 [] st = "erase" -> 3
    [] st = "write" -> 4

\* C23: the stage list ProcessDialog.__init__ builds has Write iff an image
\* path is resolved, Download iff the image source is a URL, Download only
\* with Write, Backup only with a size class, and the present stages in the
\* order Download, Backup, Erase, Write; the list the worker is given is that
\* list without its Download stage.
C23_StageList ==
  Built =>
    LET acts == BuildActions(file_path, backup, erase)
    IN /\ In("write", acts) <=> file_path # NoPath
       /\ In("download", acts) <=> IsUrl(file_path)
       /\ In("download", acts) => In("write", acts)
       /\ In("backup", acts) => backup_size \in 0 .. 4
       /\ \A i \in DOMAIN acts :
            acts[i] \in {"download", "backup", "erase", "write"}
       /\ \A i, j \in DOMAIN acts :
            i < j => StageRank(acts[i]) < StageRank(acts[j])
       /\ actions = IF In("download", acts) THEN Tail(acts) ELSE acts

\* C23 witness: a run with all four stages.
C23_Witness ==
  /\ phase = "exec" /\ file_path = UrlPath /\ backup /\ erase
  /\ actions = << "backup", "erase", "write" >> /\ downloading

\* C24: every write_flash call carries --erase-all iff the Erase box of the
\* run is checked; the driver is called for read_flash and write_flash only,
\* and no other call than write_flash carries the erase option.
C24_EraseOnlyWithWrite ==
  \A i \in DOMAIN driverCalls :
    /\ driverCalls[i].op \in {"read_flash", "write_flash"}
    /\ driverCalls[i].op = "write_flash" => (driverCalls[i].erase_all <=> erase)
    /\ driverCalls[i].erase_all => driverCalls[i].op = "write_flash"

\* C24 witness: a write call with --erase-all, made after a backup.
C24_Witness ==
  /\ erase /\ Len(driverCalls) = 2
  /\ driverCalls[2].op = "write_flash" /\ driverCalls[2].erase_all

\* C25: in a run with a download the worker exists only after the reply
\* finished without error and saveBinFile wrote the whole body to the local
\* file; the path the worker is given, and every write_flash call uses, is
\* that file (the last part of the URL), never the URL.
C25_WorkerAfterSave ==
  HadDownload =>
    /\ ~saved => (~espExists /\ wpc = "nothread" /\ driverCalls = << >>)
    /\ espExists =>
         /\ saved /\ ~dlFailed /\ fileData = DlBody
         /\ params.file_path = LastPart(UrlPath)
         /\ ~StartsWithHttp(params.file_path)
    /\ \A i \in DOMAIN driverCalls :
         driverCalls[i].op = "write_flash" =>
           (driverCalls[i].file = LastPart(UrlPath) /\ driverCalls[i].file # UrlPath)

\* C25 witness: the image was downloaded, saved and then written.
C25_Witness ==
  /\ saved /\ fileData = DlBody /\ HasWrite
  /\ driverCalls[Len(driverCalls)].file = LastPart(UrlPath)

\* C26: every value set on the download bar lies in 0..100, the values never
\* go down, and every notification yields a value (no exception leaves
\* updateBinProgress), whether the size of the body is known or not.
C26_DownloadProgressInRange ==
  /\ progExc = "None" /\ prog # "crashed"
  /\ \A i \in DOMAIN progress : progress[i] \in 0 .. 100
  /\ \A i, j \in DOMAIN progress : i < j => progress[i] <= progress[j]

\* C27: the address shown is the placeholder or the first dotted quad in
\* parentheses of the text read so far, and once the whole answer has been
\* read it is what one read of the whole answer shows.
C27_IpFromAccumulatedText ==
  /\ ipText # Placeholder =>
       (ReIpSearch(ipData) # << >> /\ ipText = ReIpSearch(ipData)[1])
  /\ (ipDlg = "open" /\ ipPos = Len(ipResp)) =>
       ipText = IpReadStep([data |-> << >>, text |-> Placeholder], ipResp).text

\* C28: when ESPWorker.abort is first called after the thread was started
\* and before run() has set the continue flag, the worker never starts a
\* write_flash call.
C28_AbortNotLostAtStartup ==
  stageAtAbort = "start" => ~HasWrite

\* C29: once the user has answered Cancel in wait_for_user, the continue
\* flag is already false whenever the latch is or is about to be released,
\* no write_flash call is ever started, and the worker leaves its wait and
\* reaches the end of run().
C29_CancelStopsWorker ==
  /\ [](cancelled => ~HasWrite)
  /\ []((cancelled /\ mstack # << >> /\ Head(mstack) = "wc_cont") => ~continueFlag)
  /\ []((cancelled /\ wcontinue) => ~continueFlag)
  /\ (cancelled ~> wpc = "finished")

\* C29 witness: Cancel was answered, the worker has left its wait and ended
\* without a write call, and the controller reports the abort.
C29_Witness ==
  /\ cancelled /\ wpc = "finished" /\ waitEntries = 1 /\ Len(driverCalls) = 1
  /\ In("write", actions) /\ Reported /\ shown = "aborted"

====
